---- MODULE Spec2Model ----
(***************************************************************************)
(* A model of homework.py: a poller that fetches the review API, turns a   *)
(* homework record into a verdict sentence and forwards it to a Telegram   *)
(* chat.  Python values, exceptions and the five functions of the file are *)
(* operators; main() is the state machine.  The Russian texts of the file  *)
(* are transliterated to ASCII, one distinct string per distinct text.     *)
(***************************************************************************)
EXTENDS Integers, Sequences, FiniteSets, TLC

\* ------------------------------------------------------------------ bounds
\* Longest `homeworks` list the API answers with.
MaxLen == 2
\* Iterations of main()'s while loop that are explored.
MaxCycles == 3
\* Values int(time.time()) may take at startup: 1..MaxTime.
MaxTime == 2

\* ------------------------------------------------------- program constants
RETRY_TIME == 600

HTTP_OK == 200

\* ---------------------------------------------------------- Python values
PyNone == [t |-> "none"]

PyStr(s) == [t |-> "str", s |-> s]

PyList(l) == [t |-> "list", l |-> l]

\* d is a function from the keys present (strings) to Python values.
PyDict(d) == [t |-> "dict", d |-> d]

\* What response.json() stands for when the body is not JSON.
NotJson == [t |-> "notjson"]

\* bool(x) for the values above.
Truthy(x) ==
  CASE x.t = "none" -> FALSE
    [] x.t = "str" -> x.s # ""
    [] x.t = "list" -> x.l # <<>>
    [] x.t = "dict" -> DOMAIN x.d # {}
    [] OTHER -> TRUE

\* str(x), as an f-string formats a value.
Str(x) ==
  CASE x.t = "none" -> "None"
    [] x.t = "str" -> x.s
    [] OTHER -> "<object>"

\* ------------------------------------------------------------- exceptions
\* The direct base class of each exception class that can occur.
ExcBase ==
  [ConnectTimeout |-> "ConnectionError",
   ConnectionError |-> "RequestException",
   HTTPError |-> "RequestException",
   RequestException |-> "OSError",
   OSError |-> "Exception",
   ValueError |-> "Exception",
   KeyError |-> "LookupError",
   LookupError |-> "Exception",
   TypeError |-> "Exception",
   AttributeError |-> "Exception",
   RuntimeError |-> "Exception",
   UnexpectedStatusError |-> "Exception",
   TimedOut |-> "NetworkError",
   NetworkError |-> "TelegramError",
   Unauthorized |-> "TelegramError",
   TelegramError |-> "Exception",
   Exception |-> "BaseException",
   SystemExit |-> "BaseException",
   BaseException |-> "object"]

RECURSIVE IsSubclass(_, _)
\* issubclass(cls, base): what an `except base` clause tests.
IsSubclass(cls, base) ==
  IF cls = base THEN TRUE
  ELSE IF cls \notin DOMAIN ExcBase THEN FALSE
  ELSE IsSubclass(ExcBase[cls], base)

\* The outcome of a call: exc = "" when it returned val, else the class raised.
\* log is what the call wrote to the logger, in order.
Return(v, log) == [exc |-> "", msg |-> "", val |-> v, log |-> log]

Raise(cls, msg, log) == [exc |-> cls, msg |-> msg, val |-> PyNone, log |-> log]

LogRec(level, text) == [level |-> level, text |-> text]

\* ------------------------------------------------------------ module state
VARIABLES
  environ,            \* PRACTICUM_TOKEN, TELEGRAM_TOKEN, TELEGRAM_CHAT_ID (os.getenv)
  pc,                 \* where main() is: start, loop, fetched, exited, crashed
  current_timestamp,  \* main's local, 0 before it is assigned
  status,             \* main's local Last-Known-Status, PyNone before it is assigned
  errors,             \* main's local flag
  cycles,             \* iterations of the while loop begun so far
  http,               \* what the review API did with the latest request
  from_date,          \* the from_date parameter of the latest request, 0 if none
  api,                \* the outcome of the latest get_api_answer call
  cycle,              \* what the current iteration did once it has finished
  chat,               \* every message delivered to the chat so far
  sleeps,             \* sleeps taken since the latest request was issued
  unit                \* the latest direct call of a function and its outcome

vars ==
  <<environ, pc, current_timestamp, status, errors, cycles, http, from_date,
    api, cycle, chat, sleeps, unit>>

PRACTICUM_TOKEN == environ["PRACTICUM_TOKEN"]

TELEGRAM_TOKEN == environ["TELEGRAM_TOKEN"]

TELEGRAM_CHAT_ID == environ["TELEGRAM_CHAT_ID"]

HOMEWORK_STATUSES ==
  [approved |-> "Rabota proverena: revyueru vsyo ponravilos. Ura!",
   reviewing |-> "Rabota vzyata na proverku revyuerom.",
   rejected |-> "Rabota proverena: u revyuera est zamechaniya."]

\* ------------------------------------------------------ Python operations
\* d.get(key) on a dict.
DictGet(x, key) == IF key \in DOMAIN x.d THEN x.d[key] ELSE PyNone

\* obj.get(key): only a dict has the attribute.
GetAttrGet(x, key) ==
  IF x.t = "dict" THEN Return(DictGet(x, key), <<>>)
  ELSE Raise("AttributeError", "object has no attribute 'get'", <<>>)

\* obj[key] for a string key.
GetItem(x, key) ==
  CASE x.t = "dict" ->
         IF key \in DOMAIN x.d THEN Return(x.d[key], <<>>)
         ELSE Raise("KeyError", key, <<>>)
    [] x.t = "str" ->
         Raise("TypeError", "string indices must be integers", <<>>)
    [] x.t = "list" ->
         Raise("TypeError", "list indices must be integers or slices", <<>>)
    [] OTHER -> Raise("TypeError", "object is not subscriptable", <<>>)

\* HOMEWORK_STATUSES[key] for any Python value as the key.
StatusLookup(key) ==
  CASE key.t \in {"list", "dict"} -> Raise("TypeError", "unhashable type", <<>>)
    [] key.t = "str" /\ key.s \in DOMAIN HOMEWORK_STATUSES ->
         Return(PyStr(HOMEWORK_STATUSES[key.s]), <<>>)
    [] OTHER -> Raise("KeyError", Str(key), <<>>)

\* ------------------------------------------------------------ send_message
\* What bot.send_message does with one call: it returns, or raises an error of
\* the telegram.error hierarchy, or an exception outside it.
Transports ==
  {"ok", "TelegramError", "NetworkError", "TimedOut", "Unauthorized", "RuntimeError"}

\* The class of exception the except clause of send_message names.
send_message_except_network == "NetworkError"

send_message_except == "TelegramError"

\* delivered: the messages that reached the chat during the call.
send_message(bot, message, transport) ==
  IF transport = "ok"
  THEN [exc |-> "", msg |-> "", val |-> PyNone,
        log |-> <<LogRec("INFO", "Soobshchenie otpravleno")>>,
        delivered |-> <<[chat_id |-> TELEGRAM_CHAT_ID, text |-> message]>>]
  ELSE IF IsSubclass(transport, send_message_except)
  THEN [exc |-> "", msg |-> "", val |-> PyNone,
        log |-> <<LogRec("ERROR", "Soobshchenie ne otpravleno")>>,
        delivered |-> <<>>]
  ELSE [exc |-> transport, msg |-> "", val |-> PyNone, log |-> <<>>,
        delivered |-> <<>>]

\* ---------------------------------------------------------- get_api_answer
\* Line 52 with the clock read anew for each request, one tick per iteration.
RequestParams_now(timestamp) == [from_date |-> timestamp + cycles]

\* Line 52: the query parameters of the request.
RequestParams(timestamp) == [from_date |-> timestamp]

\* requests.get either raises or answers with a status code and a body.
get_api_answer_noStatusCheck(timestamp, h) ==
  IF h.net # "ok"
  THEN Raise(h.net, "",
             <<LogRec("ERROR", IF IsSubclass(h.net, "ConnectTimeout")
                               THEN "Prevysheno vremya ozhidaniya otveta servera"
                               ELSE "Proizoshla oshibka soedineniya")>>)
  ELSE IF h.body = NotJson
  THEN Raise("ValueError", "Otvet ne soderzhit validnyy JSON",
             <<LogRec("ERROR", "JSONDecodeError")>>)
  ELSE Return(h.body, <<>>)

get_api_answer(timestamp, h) ==
  IF h.net # "ok"
  THEN Raise(h.net, "",
             <<LogRec("ERROR", IF IsSubclass(h.net, "ConnectTimeout")
                               THEN "Prevysheno vremya ozhidaniya otveta servera"
                               ELSE "Proizoshla oshibka soedineniya")>>)
  ELSE IF h.code # HTTP_OK
  THEN Raise("HTTPError", "Nevernyy kod otveta servera.",
             <<LogRec("ERROR", "Sboy v programme: Endpoint nedostupen.")>>)
  ELSE IF h.body = NotJson
  THEN Raise("ValueError", "Otvet ne soderzhit validnyy JSON",
             <<LogRec("ERROR", "JSONDecodeError")>>)
  ELSE Return(h.body, <<>>)

\* ---------------------------------------------------------- check_response
\* check_response without the test of lines 83-86.
check_response_noListCheck(response) ==
  IF response.t # "dict"
  THEN Raise("TypeError", "Otvet ne yavlyaetsya slovarem!",
             <<LogRec("ERROR", "Otvet ne yavlyaetsya slovarem!")>>)
  ELSE IF "homeworks" \notin DOMAIN response.d
  THEN Raise("KeyError", "Klyucha homeworks net v slovare.",
             <<LogRec("ERROR", "Klyucha homeworks net v slovare.")>>)
  ELSE Return(response.d["homeworks"], <<>>)

check_response(response) ==
  IF response.t # "dict"
  THEN Raise("TypeError", "Otvet ne yavlyaetsya slovarem!",
             <<LogRec("ERROR", "Otvet ne yavlyaetsya slovarem!")>>)
  ELSE IF "homeworks" \notin DOMAIN response.d
  THEN Raise("KeyError", "Klyucha homeworks net v slovare.",
             <<LogRec("ERROR", "Klyucha homeworks net v slovare.")>>)
  ELSE IF response.d["homeworks"].t # "list"
  THEN Raise("TypeError", "Domashnie raboty ne yavlyayutsya spiskom!",
             <<LogRec("ERROR", "Domashnie raboty ne yavlyayutsya spiskom!")>>)
  ELSE Return(response.d["homeworks"], <<>>)

\* ------------------------------------------------------------ parse_status
\* The sentence of line 107.
StatusMessage(homework_name, verdict) ==
  "Izmenilsya status proverki raboty \"" \o Str(homework_name) \o "\". " \o Str(verdict)

\* The class of exception the except clause of parse_status names.
parse_status_except == "UnexpectedStatusError"

parse_status(homework) ==
  LET name == GetAttrGet(homework, "homework_name") IN
  IF name.exc # "" THEN name
  ELSE
  LET homework_name == name.val
      homework_status == DictGet(homework, "status")
  IN
  IF homework_status = PyNone
  THEN Raise("KeyError", "Klyucha homework_status net v slovare.",
             <<LogRec("ERROR", "Klyucha homework_status net v slovare.")>>)
  ELSE IF homework.t # "dict"
  THEN Raise("TypeError", "Otvet ne yavlyaetsya slovarem!",
             <<LogRec("ERROR", "Otvet ne yavlyaetsya slovarem!")>>)
  ELSE
  LET verdict == StatusLookup(homework_status) IN
  IF verdict.exc # "" /\ IsSubclass(verdict.exc, parse_status_except)
  THEN Raise("UnexpectedStatusError", "Neozhidannyy status domashney raboty", <<>>)
  ELSE IF verdict.exc # "" THEN verdict
  ELSE Return(PyStr(StatusMessage(homework_name, verdict.val)), <<>>)

\* ------------------------------------------------------------ check_tokens
check_tokens_any ==
  IF \E k \in DOMAIN environ : Truthy(environ[k])
  THEN [val |-> TRUE, log |-> <<>>]
  ELSE [val |-> FALSE,
        log |-> <<LogRec("CRITICAL", "Otsutstvuet obyazatelnaya peremennaya okruzheniya")>>]

check_tokens ==
  IF \A v \in {PRACTICUM_TOKEN, TELEGRAM_TOKEN, TELEGRAM_CHAT_ID} : Truthy(v)
  THEN [val |-> TRUE, log |-> <<>>]
  ELSE [val |-> FALSE,
        log |-> <<LogRec("CRITICAL", "Otsutstvuet obyazatelnaya peremennaya okruzheniya")>>]

\* ------------------------------------------------- what the review API sends
HomeworkStatusValues == {"approved", "reviewing", "rejected", "unknown"}

Homework(name, st) == PyDict([homework_name |-> PyStr(name), status |-> PyStr(st)])

\* Elements of a `homeworks` list: records with a known or unknown status,
\* with a field missing, and one element that is no mapping.
HomeworkRecords ==
  {Homework("hw1", st) : st \in HomeworkStatusValues}
    \cup {PyDict([homework_name |-> PyStr("hw1")]),
          PyDict([status |-> PyStr("approved")]),
          PyStr("hw1")}

\* Records that may follow the first one in a list.
LaterRecords == {Homework("hw2", "rejected")}

\* Lists of up to MaxLen elements: any first record, then later records.
HomeworkLists ==
  {PyList(<<>>)}
    \cup {PyList(<<first>> \o rest) :
            first \in HomeworkRecords,
            rest \in UNION {[1..n -> LaterRecords] : n \in 0..(MaxLen - 1)}}

\* Keys an envelope may carry beside `homeworks`.
EnvelopeExtras ==
  {<<>>,
   [status |-> PyStr("approved"), homework_name |-> PyStr("hw1")],
   [status |-> PyStr("reviewing"), homework_name |-> PyStr("hw1")],
   [status |-> PyStr("unknown")]}

Envelopes ==
  {PyDict(("homeworks" :> hw) @@ extra) :
     hw \in HomeworkLists \cup {PyStr("none yet"), PyNone}, extra \in EnvelopeExtras}
    \cup {PyDict(extra) : extra \in EnvelopeExtras}

\* Every body a response may have: JSON of any shape, or no JSON at all.
Bodies ==
  Envelopes
    \cup {PyList(<<>>), PyList(<<Homework("hw1", "approved")>>), PyStr("error"),
          PyNone, NotJson}

\* The bodies that come with a status code other than 200.
ErrorBodies ==
  {PyDict([homeworks |-> PyList(<<>>)]),
   PyDict([homeworks |-> PyList(<<Homework("hw1", "approved")>>)]),
   PyDict([status |-> PyStr("approved"), homework_name |-> PyStr("hw1")]),
   PyDict([code |-> PyStr("not_authenticated")]),
   PyNone, NotJson}

NoHttp == [net |-> "none", code |-> 0, body |-> NotJson]

\* requests.get: a connection failure, or a response with a code and a body.
HttpOutcomes ==
  {[net |-> n, code |-> 0, body |-> NotJson] : n \in {"ConnectTimeout", "ConnectionError"}}
    \cup {[net |-> "ok", code |-> 200, body |-> b] : b \in Bodies}
    \cup {[net |-> "ok", code |-> c, body |-> b] : c \in {204, 503}, b \in ErrorBodies}

\* -------------------------------------------------------------------- main
\* The class the except clause of main's loop names.
main_except_requests == "RequestException"

main_except == "Exception"

\* Line 136, reached when nothing above it raised.
LogNoChanges(c) ==
  [c EXCEPT !.log = Append(@, LogRec("INFO", "Izmeneniy net, 600 sekund, proveryaem API"))]

\* Line 131 without the call: the envelope itself taken as the homework.
MainHomework_raw(response) == Return(response, <<>>)

\* Line 131 taking the last record of the validated list as the homework.
MainHomework_last(response) ==
  LET v == check_response(response) IN
  IF v.exc # "" THEN v
  ELSE IF v.val.l = <<>> THEN Return(PyNone, <<>>)
  ELSE Return(v.val.l[Len(v.val.l)], <<>>)

\* Line 131: what main names `homework`.
MainHomework(response) == parse_status(response)

\* Lines 130-137, the body of the try statement, given the outcome `a` of the
\* get_api_answer call of line 130, Last-Known-Status `st` and what the bot's
\* transport does if it is asked to send.  The result: the exception that left
\* the block (exc, "" if none), the new Last-Known-Status, the log entries,
\* the messages handed to send_message, those delivered and the functions
\* called, in order.
MainTry(a, st, transport) ==
  LET c0 == [exc |-> a.exc, msg |-> a.msg, status |-> st, log |-> a.log,
             sent |-> <<>>, delivered |-> <<>>, calls |-> <<"get_api_answer">>]
  IN
  IF a.exc # "" THEN c0
  ELSE
  LET response == a.val
      h == MainHomework(response)
      c1 == [c0 EXCEPT !.exc = h.exc, !.msg = h.msg, !.log = @ \o h.log,
                       !.calls = Append(@, "parse_status")]
  IN
  IF h.exc # "" THEN c1
  ELSE
  LET homework == h.val IN
  IF ~Truthy(homework) THEN LogNoChanges(c1)
  ELSE
  LET item == GetItem(homework, "status") IN
  IF item.exc # "" THEN [c1 EXCEPT !.exc = item.exc, !.msg = item.msg]
  ELSE IF st = item.val THEN LogNoChanges(c1)
  ELSE
  LET m == parse_status(homework)
      c2 == [c1 EXCEPT !.exc = m.exc, !.msg = m.msg, !.log = @ \o m.log,
                       !.calls = Append(@, "parse_status")]
  IN
  IF m.exc # "" THEN c2
  ELSE
  LET snd == send_message("bot", m.val, transport)
      c3 == [c2 EXCEPT !.exc = snd.exc, !.msg = snd.msg, !.log = @ \o snd.log,
                       !.sent = Append(@, m.val),
                       !.delivered = @ \o snd.delivered,
                       !.calls = Append(@, "send_message")]
  IN
  IF snd.exc # "" THEN c3
  ELSE LogNoChanges([c3 EXCEPT !.status = item.val])

\* Lines 138-141, the except clause: what it logs for exception `e`.
MainExcept(e, err) ==
  LET message == "Sboy v rabote programmy: " \o e IN
  IF err # err THEN <<LogRec("ERROR", message)>> ELSE <<>>

\* The sleep taken whether or not the try block raised, as a finally clause would.
MainElse_finally(e) == <<RETRY_TIME>>

\* Lines 142-143, the else clause: the sleeps taken when the try block ended
\* with exception `e` ("" if it raised nothing).
MainElse(e) == IF e = "" THEN <<RETRY_TIME>> ELSE <<>>

NoCycle ==
  [exc |-> "", msg |-> "", status |-> PyNone, log |-> <<>>, sent |-> <<>>,
   delivered |-> <<>>, calls |-> <<>>, slept |-> <<>>, response |-> NotJson, before |-> PyNone]

NoCall == [fn |-> "", arg |-> <<>>, res |-> <<>>]

Init ==
  /\ environ \in [{"PRACTICUM_TOKEN", "TELEGRAM_TOKEN", "TELEGRAM_CHAT_ID"}
                    -> {PyNone, PyStr(""), PyStr("secret")}]
  /\ pc = "start"
  /\ current_timestamp = 0
  /\ status = PyNone
  /\ errors = FALSE
  /\ cycles = 0
  /\ http = NoHttp
  /\ from_date = 0
  /\ api = Return(PyNone, <<>>)
  /\ cycle = NoCycle
  /\ chat = <<>>
  /\ sleeps = <<>>
  /\ unit = NoCall

\* Lines 120-127: the credentials check, then the locals of main.
Startup ==
  /\ pc = "start"
  /\ LET ok == check_tokens IN
     IF ~ok.val
     THEN /\ pc' = "exited"
          /\ cycle' = [NoCycle EXCEPT !.exc = "SystemExit",
                         !.log = ok.log \o
                           <<LogRec("CRITICAL",
                               "Peremennye okruzheniya zadany nekorrektno ili otsutsvuyut")>>]
          /\ UNCHANGED <<current_timestamp, status, errors>>
     ELSE /\ pc' = "loop"
          /\ \E now \in 1..MaxTime : current_timestamp' = now
          /\ status' = PyStr("reviewing")
          /\ errors' = TRUE
          /\ cycle' = [NoCycle EXCEPT !.log = ok.log]
  /\ UNCHANGED <<environ, cycles, http, from_date, api, chat, sleeps, unit>>

\* Line 130: the request of one iteration and get_api_answer's outcome.
Fetch ==
  /\ pc = "loop"
  /\ cycles < MaxCycles
  /\ http' \in HttpOutcomes
  /\ api' = get_api_answer(current_timestamp, http')
  /\ from_date' = RequestParams(current_timestamp).from_date
  /\ cycles' = cycles + 1
  /\ sleeps' = <<>>
  /\ cycle' = NoCycle
  /\ pc' = "fetched"
  /\ UNCHANGED <<environ, current_timestamp, status, errors, chat, unit>>

\* Lines 131-143: the rest of the iteration, with its except and else clauses.
Handle ==
  /\ pc = "fetched"
  /\ \E transport \in Transports : \E c \in {MainTry(api, status, transport)} :
       LET caught == c.exc # "" /\ IsSubclass(c.exc, main_except)
           slept == MainElse(c.exc)
       IN
       /\ cycle' = [exc |-> c.exc, msg |-> c.msg, status |-> c.status,
                    log |-> IF caught THEN c.log \o MainExcept(c.exc, errors) ELSE c.log,
                    sent |-> c.sent, delivered |-> c.delivered, calls |-> c.calls, slept |-> slept,
                    response |-> api.val, before |-> status]
       /\ status' = c.status
       /\ chat' = chat \o c.delivered
       /\ sleeps' = sleeps \o slept
       /\ pc' = IF c.exc = "" \/ caught THEN "loop" ELSE "crashed"
  /\ UNCHANGED <<environ, current_timestamp, errors, cycles, http, from_date, api, unit>>

Next == Startup \/ Fetch \/ Handle

Spec == Init /\ [][Next]_vars

\* The interpreter runs main() to its next statement whenever there is one.
FairSpec == Spec /\ WF_vars(Next)

\* ------------------------------------------------- the functions on their own
\* Values a function of the file may be handed.
UnitValues == Bodies \cup HomeworkRecords

UnitMessages ==
  {PyStr(StatusMessage(PyStr("hw1"), PyStr(HOMEWORK_STATUSES[st]))) :
     st \in DOMAIN HOMEWORK_STATUSES}

mainVars ==
  <<environ, pc, current_timestamp, status, errors, cycles, http, from_date,
    api, cycle, chat, sleeps>>

Called(fn, arg, res) == [fn |-> fn, arg |-> arg, res |-> res]

CallSendMessage ==
  /\ unit = NoCall
  /\ \E message \in UnitMessages, transport \in Transports :
       unit' = Called("send_message", <<message, transport>>,
                      send_message("bot", message, transport))
  /\ UNCHANGED mainVars

CallGetApiAnswer ==
  /\ unit = NoCall
  /\ \E timestamp \in 1..MaxTime, h \in HttpOutcomes :
       unit' = Called("get_api_answer", <<timestamp, h>>, get_api_answer(timestamp, h))
  /\ UNCHANGED mainVars

CallCheckResponse ==
  /\ unit = NoCall
  /\ \E response \in UnitValues :
       unit' = Called("check_response", <<response>>, check_response(response))
  /\ UNCHANGED mainVars

CallParseStatus ==
  /\ unit = NoCall
  /\ \E homework \in UnitValues :
       unit' = Called("parse_status", <<homework>>, parse_status(homework))
  /\ UNCHANGED mainVars

CallCheckTokens ==
  /\ unit = NoCall
  /\ unit' = Called("check_tokens", <<>>, check_tokens)
  /\ UNCHANGED mainVars

UnitNext ==
  \/ CallSendMessage
  \/ CallGetApiAnswer
  \/ CallCheckResponse
  \/ CallParseStatus
  \/ CallCheckTokens

\* Each function called once, on any input, from any environment.
UnitSpec == Init /\ [][UnitNext]_vars

\* ------------------------------------------------------------------ claims
\* An iteration of the loop has run to its end: `cycle` says what it did.
Finished == pc \in {"loop", "crashed"} /\ cycles > 0

\* The envelope shape of the specification: a mapping with a list under `homeworks`.
ShapeOk(r) ==
  /\ r.t = "dict"
  /\ "homeworks" \in DOMAIN r.d
  /\ r.d["homeworks"].t = "list"

ValidEnvelope(r) == ShapeOk(r) /\ r.d["homeworks"].l # <<>>

FirstHomework(r) == r.d["homeworks"].l[1]

RecordStatus(hw) ==
  IF hw.t = "dict" /\ "status" \in DOMAIN hw.d THEN hw.d["status"] ELSE PyNone

KnownStatus(v) == v.t = "str" /\ v.s \in DOMAIN HOMEWORK_STATUSES

\* The iteration fetched a valid envelope whose first record carries a known
\* status other than the Last-Known-Status the iteration began with.
FetchedChanged ==
  /\ Finished
  /\ api.exc = ""
  /\ ValidEnvelope(api.val)
  /\ KnownStatus(RecordStatus(FirstHomework(api.val)))
  /\ RecordStatus(FirstHomework(api.val)) # cycle.before

\* The iteration fetched a valid envelope whose first record carries the
\* Last-Known-Status the iteration began with.
FetchedUnchanged ==
  /\ Finished
  /\ api.exc = ""
  /\ ValidEnvelope(api.val)
  /\ RecordStatus(FirstHomework(api.val)) = cycle.before

\* C1: a cycle that fetches a valid envelope whose homework has a known status
\* other than Last-Known-Status hands exactly one message to send_message, the
\* sentence made of the homework's name and the verdict text of that status.
C1_ChangedStatusNotifiedOnce ==
  FetchedChanged =>
    LET hw == FirstHomework(api.val) IN
    cycle.sent =
      <<PyStr(StatusMessage(DictGet(hw, "homework_name"),
                            PyStr(HOMEWORK_STATUSES[RecordStatus(hw).s])))>>

\* C2: a cycle that fetches a valid envelope whose homework has the status
\* Last-Known-Status already holds calls send_message not at all and delivers
\* nothing.
C2_UnchangedStatusNotNotified ==
  FetchedUnchanged =>
    /\ cycle.sent = <<>>
    /\ cycle.delivered = <<>>
    /\ \A i \in DOMAIN cycle.calls : cycle.calls[i] # "send_message"

C2_Witness == FetchedUnchanged /\ chat = <<>> /\ cycles >= 2

\* C3: after a cycle that fetched a non-empty list whose first record has a
\* known status other than Last-Known-Status, Last-Known-Status is that status.
C3_StatusUpdated ==
  FetchedChanged => status = RecordStatus(FirstHomework(api.val))

\* C4: whenever a request is issued after an earlier one, exactly one sleep of
\* RETRY_TIME was taken since that earlier request, whether its cycle failed or not.
C4_OneSleepBetweenFetches ==
  [][(pc = "loop" /\ cycles >= 1 /\ pc' = "fetched") => sleeps = <<RETRY_TIME>>]_vars

\* C5: once in the loop main never terminates, whatever the API answers: it
\* neither exits nor dies of an exception, every iteration runs to its end, and
\* from the head of the loop the next request is issued (while the bound on
\* the iterations explored allows one).
C5_LoopNeverTerminates ==
  /\ [](pc # "crashed" /\ (cycles > 0 => pc # "exited"))
  /\ ((pc = "fetched") ~> (pc = "loop"))
  /\ ((pc = "loop" /\ cycles < MaxCycles) ~> (pc = "fetched"))

C5_Witness == pc = "loop" /\ cycles >= 2 /\ cycle.exc # ""

\* C6: parse_status, given a record whose status is none of approved, reviewing
\* and rejected, raises UnexpectedStatusError.
C6_UnknownStatusRaisesUnexpectedStatusError ==
  (/\ unit.fn = "parse_status"
   /\ unit.arg[1].t = "dict"
   /\ RecordStatus(unit.arg[1]) # PyNone
   /\ ~KnownStatus(RecordStatus(unit.arg[1])))
    => unit.res.exc = "UnexpectedStatusError"

\* C7: a cycle whose envelope is no mapping, lacks `homeworks` or holds no list
\* under it ends with check_response's error for that envelope, which is logged;
\* nothing is sent, Last-Known-Status stays and the loop goes on.
C7_ValidatorEndsCycle ==
  (Finished /\ api.exc = "" /\ ~ShapeOk(api.val)) =>
    LET v == check_response(api.val) IN
    /\ cycle.exc = v.exc
    /\ cycle.msg = v.msg
    /\ \E i \in DOMAIN cycle.log : cycle.log[i] = v.log[1]
    /\ cycle.sent = <<>>
    /\ status = cycle.before
    /\ pc = "loop"

\* C8: for a response with a status code other than 200 get_api_answer raises
\* HTTPError and returns nothing, whatever the body; the cycle ends with that
\* error, sends nothing and leaves Last-Known-Status as it was.
C8_Non200Raises ==
  (http.net = "ok" /\ http.code # HTTP_OK) =>
    /\ api.exc = "HTTPError"
    /\ api.val = PyNone
    /\ Finished =>
         /\ cycle.exc = "HTTPError"
         /\ cycle.calls = <<"get_api_answer">>
         /\ cycle.sent = <<>>
         /\ cycle.delivered = <<>>
         /\ status = cycle.before

C8_Witness ==
  /\ Finished
  /\ http.net = "ok"
  /\ http.code = 503
  /\ ValidEnvelope(http.body)
  /\ cycle.exc = "HTTPError"

\* C9: send_message returns normally when the bot's send raises TelegramError
\* or a subclass of it: the failure is logged as an error, nothing is delivered
\* and no exception reaches the caller.
C9_SendFailureSwallowed ==
  (unit.fn = "send_message" /\ IsSubclass(unit.arg[2], "TelegramError")) =>
    /\ unit.res.exc = ""
    /\ unit.res.val = PyNone
    /\ unit.res.log = <<LogRec("ERROR", "Soobshchenie ne otpravleno")>>
    /\ unit.res.delivered = <<>>

C9_Witness ==
  /\ unit.fn = "send_message"
  /\ unit.arg[2] = "Unauthorized"
  /\ unit.res.exc = ""

\* Every credential has a value that is not empty.
AllCredentials ==
  \A k \in DOMAIN environ : environ[k].t = "str" /\ environ[k].s # ""

HasCritical(log) == \E i \in DOMAIN log : log[i].level = "CRITICAL"

\* C10: with a credential missing main logs a critical error and exits: no
\* request is ever issued and nothing is ever sent; with all three it enters
\* the loop.
C10_StartupPrecondition ==
  /\ ~AllCredentials =>
       /\ pc \in {"start", "exited"}
       /\ cycles = 0 /\ from_date = 0 /\ http = NoHttp /\ chat = <<>>
       /\ pc = "exited" => HasCritical(cycle.log)
  /\ AllCredentials =>
       /\ pc # "exited"
       /\ pc # "start" => ~HasCritical(cycle.log)

C10_Witness ==
  /\ pc = "exited"
  /\ TELEGRAM_CHAT_ID = PyNone
  /\ Truthy(PRACTICUM_TOKEN)
  /\ Truthy(TELEGRAM_TOKEN)

InfoNoChanges == LogRec("INFO", "Izmeneniy net, 600 sekund, proveryaem API")

Logged(log, rec) == \E i \in DOMAIN log : log[i] = rec

\* The iteration fetched the valid envelope whose `homeworks` list is empty.
FetchedEmpty ==
  /\ Finished
  /\ api.exc = ""
  /\ ShapeOk(api.val)
  /\ api.val.d["homeworks"].l = <<>>

\* C11: a cycle that fetches an envelope with an empty `homeworks` list raises
\* nothing, sends nothing, keeps Last-Known-Status and logs "no changes".
C11_EmptyListNoChanges ==
  FetchedEmpty =>
    /\ cycle.exc = ""
    /\ cycle.sent = <<>>
    /\ status = cycle.before
    /\ Logged(cycle.log, InfoNoChanges)

\* C12: Last-Known-Status is `reviewing` when the loop is entered and changes
\* only in an iteration that delivered a message; an iteration that failed in
\* fetch or translation, or whose delivery failed, leaves it as it was.
C12_StatusChangesOnlyOnDelivery ==
  [][/\ (pc = "start" /\ pc' = "loop") => status' = PyStr("reviewing")
     /\ (pc # "start" /\ status' # status) =>
          (pc = "fetched" /\ cycle'.exc = "" /\ cycle'.delivered # <<>>)]_vars

C12_Witness ==
  /\ Finished
  /\ cycles >= 2
  /\ cycle.exc = "KeyError"
  /\ ValidEnvelope(api.val)
  /\ status = PyStr("reviewing")

\* C13: a cycle that ends with an exception leaves an error entry of main's
\* handler in the log, the generic failure message with the exception.
C13_FailureLogged ==
  (Finished /\ cycle.exc # "") =>
    Logged(cycle.log, LogRec("ERROR", "Sboy v rabote programmy: " \o cycle.exc))

\* C14: the Poll Cursor keeps its startup value: main's current_timestamp never
\* changes once assigned, and every request carries the from_date of the first.
C14_CursorNeverAdvanced ==
  [][/\ pc # "start" => current_timestamp' = current_timestamp
     /\ cycles >= 1 => from_date' = from_date
     /\ pc' = "fetched" => from_date' = current_timestamp]_vars

C14_Witness ==
  /\ pc = "fetched"
  /\ cycles = MaxCycles
  /\ from_date = current_timestamp
  /\ current_timestamp = MaxTime

\* C15: in a cycle the Response Validator is applied to the fetched envelope
\* before any translation, and parse_status is called only on a homework
\* record of a non-empty list whose status differs from Last-Known-Status,
\* followed by send_message.
C15_ComponentOrder ==
  (Finished /\ api.exc = "") =>
    /\ Len(cycle.calls) >= 2
    /\ cycle.calls[1] = "get_api_answer"
    /\ cycle.calls[2] = "check_response"
    /\ \A i \in DOMAIN cycle.calls :
         cycle.calls[i] = "parse_status" => (i = 3 /\ FetchedChanged)

\* C16: check_response fails with TypeError "not a mapping" on a value that is
\* no mapping, with KeyError "missing key" on a mapping without `homeworks`,
\* with TypeError "not a list" on a mapping with another value there, and
\* otherwise returns the value under `homeworks` as it is, the empty list too.
C16_CheckResponseContract ==
  unit.fn = "check_response" =>
    LET response == unit.arg[1]
        res == unit.res
    IN
    IF response.t # "dict"
    THEN res.exc = "TypeError" /\ res.msg = "Otvet ne yavlyaetsya slovarem!"
    ELSE IF "homeworks" \notin DOMAIN response.d
    THEN res.exc = "KeyError" /\ res.msg = "Klyucha homeworks net v slovare."
    ELSE IF response.d["homeworks"].t # "list"
    THEN res.exc = "TypeError" /\ res.msg = "Domashnie raboty ne yavlyayutsya spiskom!"
    ELSE res.exc = "" /\ res.val = response.d["homeworks"] /\ res.log = <<>>

C16_Witness ==
  /\ unit.fn = "check_response"
  /\ unit.arg[1].t = "dict"
  /\ "homeworks" \in DOMAIN unit.arg[1].d
  /\ unit.arg[1].d["homeworks"] = PyNone
  /\ unit.res.exc = "TypeError"

\* C17: parse_status fails with the "missing status key" error on a mapping
\* without `status`, with the "not a mapping" error on a record that is no
\* mapping, and on a record with a known status returns the sentence of its
\* name and verdict.
C17_ParseStatusContract ==
  unit.fn = "parse_status" =>
    LET homework == unit.arg[1]
        res == unit.res
    IN
    /\ homework.t # "dict" =>
         res.exc = "TypeError" /\ res.msg = "Otvet ne yavlyaetsya slovarem!"
    /\ (homework.t = "dict" /\ "status" \notin DOMAIN homework.d) =>
         res.exc = "KeyError" /\ res.msg = "Klyucha homework_status net v slovare."
    /\ (homework.t = "dict" /\ KnownStatus(RecordStatus(homework))) =>
         /\ res.exc = ""
         /\ res.val = PyStr(StatusMessage(DictGet(homework, "homework_name"),
                                          PyStr(HOMEWORK_STATUSES[RecordStatus(homework).s])))

\* Two envelopes alike but for the records after the first.
SameButLater(e1, e2) ==
  /\ ValidEnvelope(e1) /\ ValidEnvelope(e2)
  /\ FirstHomework(e1) = FirstHomework(e2)
  /\ DOMAIN e1.d = DOMAIN e2.d
  /\ \A k \in DOMAIN e1.d \ {"homeworks"} : e1.d[k] = e2.d[k]

\* C18: the try block gives the same messages and the same Last-Known-Status
\* for the envelope fetched and for any valid envelope with the same first
\* record and other later records.
C18_OnlyFirstRecordMatters ==
  (Finished /\ api.exc = "" /\ ValidEnvelope(api.val)) =>
    \A e2 \in Envelopes :
      SameButLater(api.val, e2) =>
        \A transport \in Transports :
          LET c1 == MainTry(api, cycle.before, transport)
              c2 == MainTry(Return(e2, <<>>), cycle.before, transport)
          IN c1.sent = c2.sent /\ c1.delivered = c2.delivered /\ c1.status = c2.status

C18_Witness ==
  /\ Finished
  /\ api.exc = ""
  /\ ValidEnvelope(api.val)
  /\ Len(api.val.d["homeworks"].l) = 1
  /\ KnownStatus(RecordStatus(FirstHomework(api.val)))
  /\ \E e2 \in Envelopes : e2 # api.val /\ SameButLater(api.val, e2)

\* C19: no cycle of main reaches send_message: what parse_status makes of the
\* fetched value is an exception or a non-empty string, which line 132 cannot
\* subscript, so every cycle ends with an exception, nothing is ever sent and
\* Last-Known-Status stays `reviewing`.
C19_NothingEverSent ==
  /\ chat = <<>>
  /\ pc \notin {"start", "exited"} => status = PyStr("reviewing")
  /\ Finished =>
       /\ cycle.exc # ""
       /\ cycle.sent = <<>>
       /\ ~\E i \in DOMAIN cycle.calls : cycle.calls[i] = "send_message"
       /\ api.exc = "" =>
            LET h == parse_status(api.val) IN
            \/ h.exc \in {"KeyError", "AttributeError"} /\ cycle.exc = h.exc
            \/ /\ h.exc = "" /\ h.val.t = "str" /\ h.val.s # ""
               /\ cycle.exc = "TypeError"

C19_Witness ==
  /\ Finished
  /\ cycles = MaxCycles
  /\ api.exc = ""
  /\ parse_status(api.val).exc = ""
  /\ cycle.exc = "TypeError"
  /\ FetchedChanged

\* C20: in a cycle "no changes" is logged exactly when the try block raised
\* nothing, and the sleep of RETRY_TIME is taken in exactly those cycles.
C20_NoChangesAndSleepTogether ==
  Finished =>
    /\ Logged(cycle.log, InfoNoChanges) <=> cycle.exc = ""
    /\ cycle.slept = <<RETRY_TIME>> <=> cycle.exc = ""
    /\ cycle.slept \in {<<>>, <<RETRY_TIME>>}

C20_Witness ==
  /\ Finished
  /\ cycle.exc # ""
  /\ cycle.slept = <<>>
  /\ ~Logged(cycle.log, InfoNoChanges)

====
